---- MODULE Spec2Model ----
(***************************************************************************)
(* lighttpd mod_extforward: resolution of the forwarded client address,   *)
(* its substitution into the connection for the duration of a request,    *)
(* and its restoration at request end / connection reset.                 *)
(*                                                                         *)
(* Text is modelled as a sequence of one-character strings, so that the   *)
(* scanner, the caseless comparisons and the address conversion work on   *)
(* characters as the C code does.                                         *)
(***************************************************************************)
EXTENDS Integers, Sequences, FiniteSets, TLC

(***************************************************************************)
(* Characters and C string helpers                                         *)
(***************************************************************************)

\* ASCII codes of the characters the model uses.
Ascii ==
  [c \in {" ", ",", ".", "/", "0", "1", "9", ":", "@", "A", "F", "G", "H",
          "P", "R", "S", "T", "U", "a", "f", "g", "h", "l", "n", "o", "p",
          "r", "s", "t", "u"} |->
     CASE c = " " -> 32 [] c = "," -> 44 [] c = "." -> 46 [] c = "/" -> 47
       [] c = "0" -> 48 [] c = "1" -> 49 [] c = "9" -> 57 [] c = ":" -> 58
       [] c = "@" -> 64 [] c = "A" -> 65 [] c = "F" -> 70 [] c = "G" -> 71 [] c = "H" -> 72
       [] c = "P" -> 80 [] c = "R" -> 82 [] c = "S" -> 83 [] c = "T" -> 84
       [] c = "U" -> 85 [] c = "a" -> 97 [] c = "f" -> 102 [] c = "g" -> 103
       [] c = "h" -> 104 [] c = "l" -> 108 [] c = "n" -> 110 [] c = "o" -> 111
       [] c = "p" -> 112 [] c = "r" -> 114 [] c = "s" -> 115 [] c = "t" -> 116
       [] c = "u" -> 117]

Ord(c) == Ascii[c]

\* tolower() of the C locale, on character codes.
tolower(n) == IF n >= 65 /\ n <= 90 THEN n + 32 ELSE n

\* strcasecmp(a, b) == 0
strcasecmp_eq(a, b) ==
  /\ Len(a) = Len(b)
  /\ \A i \in 1..Len(a) : tolower(Ord(a[i])) = tolower(Ord(b[i]))

\* All texts over the characters cs of length at most n.
RECURSIVE StringsUpTo(_, _)
StringsUpTo(cs, n) ==
  IF n = 0 THEN {<< >>}
  ELSE LET shorter == StringsUpTo(cs, n - 1)
       IN  shorter \cup {Append(s, c) : s \in shorter, c \in cs}

\* The literals of the source.
STR_all   == <<"a", "l", "l">>
STR_trust == <<"t", "r", "u", "s", "t">>
STR_https == <<"h", "t", "t", "p", "s">>
STR_http  == <<"h", "t", "t", "p">>

\* A null pointer, and a pointer to a text.
NULL == [null |-> TRUE]
Ptr(s) == [null |-> FALSE, ptr |-> s]

(***************************************************************************)
(* extract_forward_array: the forwarding-chain scanner                     *)
(***************************************************************************)

\* The separator test of the in_str branch.
IsSeparator(c) ==
  /\ (Ord(c) > Ord("9") \/ Ord(c) < Ord("0"))
  /\ c /= "."
  /\ c /= ":"
  /\ (Ord(c) < Ord("a") \/ Ord(c) > Ord("f"))
  /\ (Ord(c) < Ord("A") \/ Ord(c) > Ord("F"))

\* The leading-character test with '.' accepted as well.
IsLeadingChar_with_dot(c) == ~IsSeparator(c)

\* The leading-character test of the not-in-string branch.
IsLeadingChar(c) ==
  \/ (Ord(c) >= Ord("0") /\ Ord(c) <= Ord("9"))
  \/ c = ":"
  \/ (Ord(c) >= Ord("a") /\ Ord(c) <= Ord("f"))
  \/ (Ord(c) >= Ord("A") /\ Ord(c) <= Ord("F"))

\* Appends str[base..base+len-1] to the array unless len = 0.
put_string_into_array_len(ary, str, base, len) ==
  IF len = 0 THEN ary ELSE Append(ary, SubSeq(str, base, base + len - 1))

\* The for loop: curr and base are 1-based positions, Len(s)+1 is the NUL.
RECURSIVE extract_loop(_, _, _, _, _)
extract_loop(s, curr, base, in_str, result) ==
  IF curr > Len(s)
  THEN IF in_str
       THEN put_string_into_array_len(result, s, base, curr - base)
       ELSE result
  ELSE IF in_str
       THEN IF IsSeparator(s[curr])
            THEN extract_loop(s, curr + 1, base, FALSE,
                   put_string_into_array_len(result, s, base, curr - base))
            ELSE extract_loop(s, curr + 1, base, TRUE, result)
       ELSE IF IsLeadingChar(s[curr])
            THEN extract_loop(s, curr + 1, curr, TRUE, result)
            ELSE extract_loop(s, curr + 1, base, FALSE, result)

extract_forward_array(pbuffer) ==
  IF pbuffer = << >> THEN << >> ELSE extract_loop(pbuffer, 1, 1, FALSE, << >>)

(***************************************************************************)
(* is_proxy_trusted and last_not_in_array                                  *)
(* The forwarder array is a function from its keys to its values;         *)
(* array_get_element(a, k) is non-NULL iff k \in DOMAIN a.                 *)
(***************************************************************************)

IP_TRUSTED == 1
IP_UNTRUSTED == 0

\* is_proxy_trusted with the address's own entry consulted before "all".
is_proxy_trusted_entry_first(ipstr, forwarder) ==
  IF ipstr \in DOMAIN forwarder THEN IP_TRUSTED
  ELSE IF STR_all \in DOMAIN forwarder
            /\ strcasecmp_eq(forwarder[STR_all], STR_trust)
       THEN IP_TRUSTED
       ELSE IP_UNTRUSTED

is_proxy_trusted(ipstr, forwarder) ==
  IF STR_all \in DOMAIN forwarder
  THEN IF strcasecmp_eq(forwarder[STR_all], STR_trust)
       THEN IP_TRUSTED
       ELSE IP_UNTRUSTED
  ELSE IF ipstr \in DOMAIN forwarder THEN IP_TRUSTED ELSE IP_UNTRUSTED

\* The walk that stops at once: the last token of the chain, key or not.
last_token_loop(a, i, forwarder) ==
  IF i < 1 THEN NULL ELSE Ptr(a[i])

\* The walk from the left: it stops at the leftmost token that is not a key.
RECURSIVE first_not_in_array_loop(_, _, _)
first_not_in_array_loop(a, i, forwarder) ==
  IF i < 1 THEN NULL
  ELSE IF first_not_in_array_loop(a, i - 1, forwarder) /= NULL
       THEN first_not_in_array_loop(a, i - 1, forwarder)
       ELSE IF a[i] \notin DOMAIN forwarder THEN Ptr(a[i]) ELSE NULL

\* The walk with the "all" keyword accepted: it stops at the first token,
\* from the right, that is_proxy_trusted does not trust.
RECURSIVE last_untrusted_loop(_, _, _)
last_untrusted_loop(a, i, forwarder) ==
  IF i < 1 THEN NULL
  ELSE IF is_proxy_trusted(a[i], forwarder) = IP_UNTRUSTED
       THEN Ptr(a[i])
       ELSE last_untrusted_loop(a, i - 1, forwarder)

RECURSIVE last_not_in_array_loop(_, _, _)
last_not_in_array_loop(a, i, forwarder) ==
  IF i < 1 THEN NULL
  ELSE IF a[i] \notin DOMAIN forwarder
       THEN Ptr(a[i])
       ELSE last_not_in_array_loop(a, i - 1, forwarder)

last_not_in_array(a, forwarder) == last_not_in_array_loop(a, Len(a), forwarder)

(***************************************************************************)
(* ipstr_to_sockaddr: text -> sock_addr through getaddrinfo with         *)
(* AI_NUMERICHOST.  A sock_addr is [family, addr]; addr is the 32-bit     *)
(* IPv4 value or the eight 16-bit groups of an IPv6 address.              *)
(***************************************************************************)

IsDigit(c) == Ord(c) >= Ord("0") /\ Ord(c) <= Ord("9")
IsXDigit(c) ==
  \/ IsDigit(c)
  \/ (Ord(c) >= Ord("a") /\ Ord(c) <= Ord("f"))
  \/ (Ord(c) >= Ord("A") /\ Ord(c) <= Ord("F"))
XDigitVal(c) ==
  IF IsDigit(c) THEN Ord(c) - Ord("0") ELSE tolower(Ord(c)) - Ord("a") + 10

\* The value of the digits s in the given base.
RECURSIVE NumVal(_, _)
NumVal(s, base) ==
  IF s = << >> THEN 0
  ELSE base * NumVal(SubSeq(s, 1, Len(s) - 1), base) + XDigitVal(s[Len(s)])

\* The parts of s between occurrences of sep ("1..2" has an empty part).
RECURSIVE SplitLoop(_, _, _, _)
SplitLoop(s, sep, i, cur) ==
  IF i > Len(s) THEN <<cur>>
  ELSE IF s[i] = sep
       THEN <<cur>> \o SplitLoop(s, sep, i + 1, << >>)
       ELSE SplitLoop(s, sep, i + 1, Append(cur, s[i]))
Split(s, sep) == SplitLoop(s, sep, 1, << >>)

RECURSIVE Pow(_, _)
Pow(b, e) == IF e = 0 THEN 1 ELSE b * Pow(b, e - 1)

\* One part of a dotted IPv4 text: decimal, or octal after a leading 0.
V4PartOk(part) ==
  /\ part /= << >>
  /\ \A i \in 1..Len(part) : IsDigit(part[i])
  /\ (Len(part) > 1 /\ part[1] = "0") =>
        \A i \in 1..Len(part) : XDigitVal(part[i]) < 8
V4PartVal(part) ==
  IF Len(part) > 1 /\ part[1] = "0" THEN NumVal(part, 8) ELSE NumVal(part, 10)

\* a, a.b, a.b.c, a.b.c.d as inet_aton reads them: every part but the last
\* is one byte, the last part fills the remaining bytes.  (A single part of
\* up to nine digits is always below 2^32.)
V4Ok(host) ==
  LET parts == Split(host, ".")
      n == Len(parts)
  IN  /\ n <= 4
      /\ \A i \in 1..n : V4PartOk(parts[i])
      /\ \A i \in 1..(n - 1) : V4PartVal(parts[i]) <= 255
      /\ IF n = 1 THEN Len(parts[1]) <= 9
         ELSE V4PartVal(parts[n]) < Pow(256, 5 - n)
\* The four bytes of the address, most significant first.
V4Val(host) ==
  LET parts == Split(host, ".")
      n == Len(parts)
  IN  [i \in 1..4 |->
        IF i < n THEN V4PartVal(parts[i])
        ELSE (V4PartVal(parts[n]) \div Pow(256, 4 - i)) % 256]

\* Hex groups separated by ':' with at most one "::" (no embedded IPv4).
V6Groups(host) == Split(host, ":")
V6GroupOk(g) == Len(g) >= 1 /\ Len(g) <= 4 /\ \A i \in 1..Len(g) : IsXDigit(g[i])
V6Ok(host) ==
  LET g == V6Groups(host)
      n == Len(g)
      empty == {i \in 1..n : g[i] = << >>}
      full == {i \in 1..n : g[i] /= << >>}
  IN  /\ \A i \in full : V6GroupOk(g[i])
      /\ \/ n = 8 /\ empty = {}
         \/ n = 3 /\ empty = {1, 2, 3}
         \/ n >= 3 /\ n <= 9 /\ empty = {1, 2}
         \/ n >= 3 /\ n <= 9 /\ empty = {n - 1, n}
         \/ n >= 3 /\ n <= 8 /\ \E i \in 2..(n - 1) : empty = {i}
V6Val(host) ==
  LET g == V6Groups(host)
      n == Len(g)
      pre == SelectSeq(SubSeq(g, 1, CHOOSE i \in 0..n :
                 /\ \A j \in 1..i : g[j] /= << >>
                 /\ (i = n \/ g[i + 1] = << >>)), LAMBDA x : TRUE)
      post == SelectSeq(SubSeq(g, Len(pre) + 1, n), LAMBDA x : x /= << >>)
  IN  [i \in 1..8 |->
        IF i <= Len(pre) THEN NumVal(pre[i], 16)
        ELSE IF i > 8 - Len(post) THEN NumVal(post[i - (8 - Len(post))], 16)
        ELSE 0]

\* getaddrinfo(host, NULL, AI_NUMERICHOST): result 0 and the family, or failure.
getaddrinfo(host) ==
  IF host /= << >> /\ (\A i \in 1..Len(host) : IsDigit(host[i]) \/ host[i] = ".")
     /\ V4Ok(host)
  THEN [result |-> 0, ai_family |-> "AF_INET", ai_addr |-> V4Val(host)]
  ELSE IF (\E i \in 1..Len(host) : host[i] = ":") /\ V6Ok(host)
  THEN [result |-> 0, ai_family |-> "AF_INET6", ai_addr |-> V6Val(host)]
  ELSE [result |-> 1, ai_family |-> "AF_UNSPEC", ai_addr |-> 0]

AF_UNSPEC_sock == [family |-> "AF_UNSPEC", addr |-> 0]

ipstr_to_sockaddr(host) ==
  LET info == getaddrinfo(host)
  IN  IF info.result /= 0 THEN AF_UNSPEC_sock
      ELSE IF info.ai_family = "AF_INET"
           THEN [family |-> "AF_INET", addr |-> info.ai_addr]
      ELSE IF info.ai_family = "AF_INET6"
           THEN [family |-> "AF_INET6", addr |-> info.ai_addr]
      ELSE AF_UNSPEC_sock

(***************************************************************************)
(* Bounds and input sets of the connection specifications                  *)
(***************************************************************************)

\* Length of the value of the X-Forwarded-For header of a request.
MaxHdrLen == 2
\* Length of the value of the Forwarded-For header of a request.
MaxAltLen == 1
\* Number of textual-address buffers the allocator can hand out.
MaxBufs == 3

\* Characters of X-Forwarded-For values in requests: a digit, a hex letter
\* (no numeric address contains it without ':') and a separator.
HdrChars == {"1", "a", ","}
HeaderValues == StringsUpTo(HdrChars, MaxHdrLen)
\* Forwarded-For values in requests: digits only.
AltChars == {"1"}
AltValues == StringsUpTo(AltChars, MaxAltLen)

XFF == "X-Forwarded-For"
FF == "Forwarded-For"
XFP == "X-Forwarded-Proto"

\* Textual addresses of the socket peer.
PeerTexts == {<<"1">>}

\* Keys and values of extforward.forwarder.
STR_no == <<"n", "o">>
FwdKeys == {STR_all} \cup PeerTexts
FwdValues == {STR_trust, STR_no}
ForwarderMaps == UNION {[K -> FwdValues] : K \in SUBSET FwdKeys}

\* Values of the X-Forwarded-Proto header.
ProtoValues == {<<"H", "T", "T", "P", "S">>, <<"f", "t", "p">>}

\* The headers of a request: each absent (NULL) or present with a value.
OptionOf(values) == {NULL} \cup {Ptr(v) : v \in values}
RequestHeaders ==
  {[n \in {XFF, FF, XFP} |-> IF n = XFF THEN x ELSE IF n = FF THEN f ELSE p] :
     x \in OptionOf(HeaderValues), f \in OptionOf(AltValues),
     p \in OptionOf(ProtoValues)}

\* SpecReq serves one request per connection and affords longer values and
\* one more forwarder key.
MaxReqLen == 3
ReqHeaderValues == StringsUpTo(HdrChars, MaxReqLen)
ReqFwdKeys == FwdKeys \cup {<<"a">>}
ReqForwarderMaps == UNION {[K -> FwdValues] : K \in SUBSET ReqFwdKeys}
ReqRequestHeaders ==
  {[n \in {XFF, FF, XFP} |-> IF n = XFF THEN x ELSE IF n = FF THEN f ELSE p] :
     x \in OptionOf(ReqHeaderValues), f \in OptionOf(AltValues),
     p \in OptionOf(ProtoValues)}

\* The scanner and the address conversion, tabulated over the header values
\* and the tokens of the requests above.
AllHeaderValues == HeaderValues \cup AltValues \cup ReqHeaderValues
forward_array_of == [v \in AllHeaderValues |-> extract_forward_array(v)]
AddrTexts ==
  UNION {{forward_array_of[v][i] : i \in 1..Len(forward_array_of[v])} :
           v \in AllHeaderValues}
sockaddr_of == [t \in AddrTexts \cup PeerTexts |-> ipstr_to_sockaddr(t)]

(***************************************************************************)
(* Configuration: mod_extforward_set_defaults, patch_connection            *)
(* A scope of the configuration file is a function from the keys it       *)
(* mentions to their values; scope 1 is the global scope.                 *)
(***************************************************************************)

KEY_forwarder == "extforward.forwarder"
KEY_headers == "extforward.headers"

\* An entry without a key in a forwarder array has the empty key; an entry
\* with a key in a headers list is written KEYED.
KEYED == "key => value"

\* Every entry has a key (and a string value).
array_is_kvstring(a) == << >> \notin DOMAIN a
\* No entry has a key (and every value is a string).
array_is_vlist(a) == \A i \in DOMAIN a : a[i] /= KEYED

DefaultHeaders == <<XFF, FF>>

\* set_defaults_scope that fills in the default headers of every scope whose
\* list is empty.
set_defaults_scope_any_empty(i, value) ==
  LET forwarder == IF KEY_forwarder \in DOMAIN value
                   THEN value[KEY_forwarder] ELSE << >>
      headers == IF KEY_headers \in DOMAIN value
                 THEN value[KEY_headers] ELSE << >>
      raw == [forwarder |-> forwarder, headers |-> headers]
  IN  IF ~array_is_kvstring(forwarder) THEN [ret |-> "HANDLER_ERROR", s |-> raw]
      ELSE IF ~array_is_vlist(headers) THEN [ret |-> "HANDLER_ERROR", s |-> raw]
      ELSE [ret |-> "HANDLER_GO_ON",
            s |-> [forwarder |-> forwarder,
                   headers |-> IF Len(headers) = 0 THEN DefaultHeaders
                               ELSE headers]]

\* The plugin_config of scope i as the loop body leaves it, and whether the
\* body returned an error: s holds the values of the scope, stored in
\* p->config_storage[i] before they are tested.
set_defaults_scope(i, value) ==
  LET forwarder == IF KEY_forwarder \in DOMAIN value
                   THEN value[KEY_forwarder] ELSE << >>
      headers == IF KEY_headers \in DOMAIN value
                 THEN value[KEY_headers] ELSE << >>
      raw == [forwarder |-> forwarder, headers |-> headers]
  IN  IF ~array_is_kvstring(forwarder) THEN [ret |-> "HANDLER_ERROR", s |-> raw]
      ELSE IF ~array_is_vlist(headers) THEN [ret |-> "HANDLER_ERROR", s |-> raw]
      ELSE [ret |-> "HANDLER_GO_ON",
            s |-> [forwarder |-> forwarder,
                   headers |->
                     IF Len(headers) = 0
                        /\ (i = 1 \/ KEY_headers \in DOMAIN value)
                     THEN DefaultHeaders
                     ELSE headers]]

\* The loop over the scopes: stops at the first error.
RECURSIVE set_defaults_loop(_, _, _)
set_defaults_loop(config_context, i, storage) ==
  IF i > Len(config_context)
  THEN [ret |-> "HANDLER_GO_ON", config_storage |-> storage]
  ELSE LET r == set_defaults_scope(i, config_context[i])
       IN  IF r.ret = "HANDLER_ERROR"
           THEN [ret |-> "HANDLER_ERROR",
                 config_storage |-> Append(storage, r.s)]
           ELSE set_defaults_loop(config_context, i + 1, Append(storage, r.s))

mod_extforward_set_defaults(config_context) ==
  set_defaults_loop(config_context, 1, << >>)

\* p->conf after merging the scopes whose condition matched.
RECURSIVE patch_loop(_, _, _, _, _)
patch_loop(config_context, storage, matched, i, c) ==
  IF i > Len(config_context) THEN c
  ELSE IF i \notin matched
       THEN patch_loop(config_context, storage, matched, i + 1, c)
       ELSE patch_loop(config_context, storage, matched, i + 1,
              [forwarder |-> IF KEY_forwarder \in DOMAIN config_context[i]
                             THEN storage[i].forwarder ELSE c.forwarder,
               headers |-> IF KEY_headers \in DOMAIN config_context[i]
                           THEN storage[i].headers ELSE c.headers])

mod_extforward_patch_connection(config_context, storage, matched) ==
  patch_loop(config_context, storage, matched, 2,
             [forwarder |-> storage[1].forwarder, headers |-> storage[1].headers])

(***************************************************************************)
(* State                                                                   *)
(***************************************************************************)

VARIABLES
  config_context,  \* srv->config_context: the scopes of the configuration file
  config_storage,  \* p->config_storage: one plugin_config per scope
  conf,            \* p->conf: the configuration patched for the last request
  con,             \* connection: dst_addr, dst_addr_buf, uri_scheme, plugin_ctx
  heap,            \* textual-address buffers: "free", "live" or "double_free"
  peer,            \* the address and text of the socket peer
  last,            \* the hook that ran last: its name, result, exit path and
                   \* cache resets, and the hook before it; after restore
                   \* also hist as it was before
  hist,            \* successful set_addr calls since the last restore, and the
                   \* address pair and scheme before the first of them
  arg,             \* the request being served / the input of a pure function
  res              \* the result of the pure function

vars == <<config_context, config_storage, conf, con, heap, peer, last, hist,
          arg, res>>

(***************************************************************************)
(* Address substitution: set_addr, set_proto, restore                      *)
(* The operators act on st = [con, heap, resets, seen, path]: resets       *)
(* counts the clean_cond_cache calls of the running hook, seen is the     *)
(* address at the last of them, path names the hook's exit.               *)
(***************************************************************************)

\* buffer_init_string: the lowest free buffer, 0 when MaxBufs are in use.
buffer_init_string(h, text) ==
  LET free == {i \in DOMAIN h : h[i] = "free"}
  IN  [id |-> IF free = {} THEN 0 ELSE CHOOSE i \in free : \A j \in free : i <= j,
       ptr |-> text]

heap_alloc(h, id) == [i \in DOMAIN h |-> IF i = id THEN "live" ELSE h[i]]

\* buffer_free: freeing a buffer that is not live is a double free.
buffer_free(h, buf) ==
  [i \in DOMAIN h |->
     IF i = buf.id THEN (IF h[i] = "live" THEN "free" ELSE "double_free")
     ELSE h[i]]

\* Resets the cached results for COMP_HTTP_REMOTE_IP and COMP_HTTP_SCHEME;
\* seen is the address a condition evaluated right after the reset matches on.
clean_cond_cache(st) ==
  [st EXCEPT !.resets = @ + 1,
             !.seen = [dst_addr |-> st.con.dst_addr,
                       dst_addr_buf |-> st.con.dst_addr_buf]]

\* set_addr_patch with the save taken after the patch: the context holds the
\* substituted address.
set_addr_patch_save_after(st, addr, sock) ==
  LET buf == buffer_init_string(st.heap, addr)
  IN  clean_cond_cache(
        [st EXCEPT !.con = [@ EXCEPT
                     !.plugin_ctx = [null |-> FALSE,
                                     saved_remote_addr |-> sock,
                                     saved_remote_addr_buf |-> buf],
                     !.dst_addr = sock,
                     !.dst_addr_buf = buf],
                   !.heap = heap_alloc(@, buf.id)])

\* set_addr_patch with the cache reset ahead of the patch.
set_addr_patch_reset_first(st, addr, sock) ==
  LET freed == IF st.con.plugin_ctx /= NULL
               THEN [st.con EXCEPT !.plugin_ctx = NULL]
               ELSE st.con
      hctx == [null |-> FALSE,
               saved_remote_addr |-> freed.dst_addr,
               saved_remote_addr_buf |-> freed.dst_addr_buf]
      buf == buffer_init_string(st.heap, addr)
  IN  [clean_cond_cache(st) EXCEPT
         !.con = [freed EXCEPT !.plugin_ctx = hctx,
                               !.dst_addr = sock,
                               !.dst_addr_buf = buf],
         !.heap = heap_alloc(@, buf.id)]

\* The part of set_addr after a successful conversion to sock.
set_addr_patch(st, addr, sock) ==
  LET \* an earlier context is freed: the struct only, not its buffer
      freed == IF st.con.plugin_ctx /= NULL
               THEN [st.con EXCEPT !.plugin_ctx = NULL]
               ELSE st.con
      \* save old address
      hctx == [null |-> FALSE,
               saved_remote_addr |-> freed.dst_addr,
               saved_remote_addr_buf |-> freed.dst_addr_buf]
      \* patch connection address
      buf == buffer_init_string(st.heap, addr)
  IN  clean_cond_cache(
        [st EXCEPT !.con = [freed EXCEPT !.plugin_ctx = hctx,
                                         !.dst_addr = sock,
                                         !.dst_addr_buf = buf],
                   !.heap = heap_alloc(@, buf.id)])

\* set_addr that drops an earlier context before it looks at the conversion.
mod_extforward_set_addr_drops_ctx(st, addr) ==
  IF sockaddr_of[addr].family = "AF_UNSPEC"
  THEN [ret |-> 0, st |-> [st EXCEPT !.con.plugin_ctx = NULL]]
  ELSE [ret |-> 1, st |-> set_addr_patch(st, addr, sockaddr_of[addr])]

mod_extforward_set_addr(st, addr) ==
  IF sockaddr_of[addr].family = "AF_UNSPEC"
  THEN [ret |-> 0, st |-> st]
  ELSE [ret |-> 1, st |-> set_addr_patch(st, addr, sockaddr_of[addr])]

\* buffer_is_equal_caseless_string(b, s, len): same length, equal ignoring case.
buffer_is_equal_caseless_string(b, s) ==
  /\ Len(b) = Len(s)
  /\ \A i \in 1..Len(s) : tolower(Ord(b[i])) = tolower(Ord(s[i]))

\* buffer_caseless_compare(a, alen, b, blen): 0 iff equal ignoring case.
buffer_caseless_compare(a, b) ==
  LET len == IF Len(a) < Len(b) THEN Len(a) ELSE Len(b)
      diff == {i \in 1..len : tolower(Ord(a[i])) /= tolower(Ord(b[i]))}
  IN  IF diff /= {}
      THEN LET i == CHOOSE k \in diff : \A j \in diff : k <= j
           IN  tolower(Ord(a[i])) - tolower(Ord(b[i]))
      ELSE IF Len(a) = Len(b) THEN 0
      ELSE IF Len(a) < Len(b) THEN -1 ELSE 1

\* set_proto that compares only as many characters as the word has.
mod_extforward_set_proto_by_prefix(c, proto) ==
  IF 0 /= Len(proto) /\ ~buffer_is_equal_caseless_string(c.uri_scheme, proto)
  THEN IF Len(proto) >= 5
          /\ 0 = buffer_caseless_compare(SubSeq(proto, 1, 5), STR_https)
       THEN [c EXCEPT !.uri_scheme = STR_https]
       ELSE IF Len(proto) >= 4
               /\ 0 = buffer_caseless_compare(SubSeq(proto, 1, 4), STR_http)
            THEN [c EXCEPT !.uri_scheme = STR_http]
            ELSE c
  ELSE c

mod_extforward_set_proto(c, proto) ==
  IF 0 /= Len(proto) /\ ~buffer_is_equal_caseless_string(c.uri_scheme, proto)
  THEN IF 0 = buffer_caseless_compare(proto, STR_https)
       THEN [c EXCEPT !.uri_scheme = STR_https]
       ELSE IF 0 = buffer_caseless_compare(proto, STR_http)
            THEN [c EXCEPT !.uri_scheme = STR_http]
            ELSE c
  ELSE c

\* forwarded_proto that applies the scheme whatever set_addr returned.
forwarded_proto_always(r, x_forwarded_proto) ==
  IF NULL /= x_forwarded_proto
  THEN [r.st EXCEPT !.con = mod_extforward_set_proto(@, x_forwarded_proto.ptr),
                    !.path = IF r.ret /= 0 THEN "applied" ELSE "conv_failed"]
  ELSE [r.st EXCEPT !.path = IF r.ret /= 0 THEN "applied" ELSE "conv_failed"]

\* The part of X_Forwarded_For after set_addr returned r.
forwarded_proto(r, x_forwarded_proto) ==
  IF r.ret /= 0 /\ NULL /= x_forwarded_proto
  THEN [r.st EXCEPT !.con = mod_extforward_set_proto(@, x_forwarded_proto.ptr),
                    !.path = "applied"]
  ELSE [r.st EXCEPT !.path = IF r.ret /= 0 THEN "applied" ELSE "conv_failed"]

mod_extforward_X_Forwarded_For(st, forwarder, x_forwarded_for, headers) ==
  IF last_not_in_array(forward_array_of[x_forwarded_for], forwarder) /= NULL
  THEN forwarded_proto(
         mod_extforward_set_addr(st,
           last_not_in_array(forward_array_of[x_forwarded_for], forwarder).ptr),
         headers[XFP])
  ELSE [st EXCEPT !.path = "no_addr"]

\* The loop run to its end: the last configured header present on the request.
RECURSIVE find_forwarded_last(_, _, _)
find_forwarded_last(conf_headers, k, headers) ==
  IF k > Len(conf_headers) THEN NULL
  ELSE IF find_forwarded_last(conf_headers, k + 1, headers) /= NULL
       THEN find_forwarded_last(conf_headers, k + 1, headers)
       ELSE headers[conf_headers[k]]

\* The loop over p->conf.headers: the first header present on the request.
RECURSIVE find_forwarded(_, _, _)
find_forwarded(conf_headers, k, headers) ==
  IF k > Len(conf_headers) THEN NULL
  ELSE IF headers[conf_headers[k]] /= NULL THEN headers[conf_headers[k]]
       ELSE find_forwarded(conf_headers, k + 1, headers)

\* uri_handler_body without the test of the connecting address.
uri_handler_body_any_peer(st, c, headers) ==
  IF NULL = find_forwarded(c.headers, 1, headers)
  THEN [st EXCEPT !.path = "no_header"]
  ELSE mod_extforward_X_Forwarded_For(st, c.forwarder,
         find_forwarded(c.headers, 1, headers).ptr, headers)

\* The request hook after patch_connection, on st.
uri_handler_body(st, c, headers) ==
  IF NULL = find_forwarded(c.headers, 1, headers)
  THEN [st EXCEPT !.path = "no_header"]
  ELSE IF IP_UNTRUSTED = is_proxy_trusted(st.con.dst_addr_buf.ptr, c.forwarder)
       THEN [st EXCEPT !.path = "untrusted"]
       ELSE mod_extforward_X_Forwarded_For(st, c.forwarder,
              find_forwarded(c.headers, 1, headers).ptr, headers)

\* restore_body that also resets con->uri.scheme, context or not.
restore_body_resets_scheme(st) ==
  IF st.con.plugin_ctx = NULL
  THEN [st EXCEPT !.con.uri_scheme = STR_http, !.path = "no_ctx"]
  ELSE clean_cond_cache(
         [st EXCEPT !.con = [@ EXCEPT
                      !.dst_addr = st.con.plugin_ctx.saved_remote_addr,
                      !.dst_addr_buf = st.con.plugin_ctx.saved_remote_addr_buf,
                      !.uri_scheme = STR_http,
                      !.plugin_ctx = NULL],
                    !.heap = buffer_free(@, st.con.dst_addr_buf),
                    !.path = "restored"])

\* restore_body that puts the scheme back to "http" with the address.
restore_body_drops_scheme(st) ==
  IF st.con.plugin_ctx = NULL THEN [st EXCEPT !.path = "no_ctx"]
  ELSE clean_cond_cache(
         [st EXCEPT !.con = [@ EXCEPT
                      !.dst_addr = st.con.plugin_ctx.saved_remote_addr,
                      !.dst_addr_buf = st.con.plugin_ctx.saved_remote_addr_buf,
                      !.uri_scheme = STR_http,
                      !.plugin_ctx = NULL],
                    !.heap = buffer_free(@, st.con.dst_addr_buf),
                    !.path = "restored"])

\* restore, on st.
restore_body(st) ==
  IF st.con.plugin_ctx = NULL THEN [st EXCEPT !.path = "no_ctx"]
  ELSE clean_cond_cache(
         [st EXCEPT !.con = [@ EXCEPT
                      !.dst_addr = st.con.plugin_ctx.saved_remote_addr,
                      !.dst_addr_buf = st.con.plugin_ctx.saved_remote_addr_buf,
                      !.plugin_ctx = NULL],
                    !.heap = buffer_free(@, st.con.dst_addr_buf),
                    !.path = "restored"])

(***************************************************************************)
(* The hooks                                                               *)
(***************************************************************************)

NoHist == [napply |-> 0, pre |-> NULL]

\* hist after a request hook that took st0 to st1.
hist_after(st0, st1) ==
  IF st1.path /= "applied" THEN hist
  ELSE [napply |-> hist.napply + 1,
        pre |-> IF hist.napply = 0
                THEN [dst_addr |-> st0.con.dst_addr,
                      dst_addr_buf |-> st0.con.dst_addr_buf,
                      uri_scheme |-> st0.con.uri_scheme]
                ELSE hist.pre]

\* The request hook on a request with the given headers.
uri_handler_on(headers) ==
  \E matched \in SUBSET {i \in DOMAIN config_context : i >= 2} :
    LET c == mod_extforward_patch_connection(config_context, config_storage,
                                             matched)
        st0 == [con |-> con, heap |-> heap, resets |-> 0, seen |-> NULL,
                path |-> "none"]
    IN  \E st1 \in {uri_handler_body(st0, c, headers)} :
          /\ st1.con.dst_addr_buf.id /= 0
          /\ conf' = c
          /\ con' = st1.con
          /\ heap' = st1.heap
          /\ last' = [op |-> "uri_handler", ret |-> "HANDLER_GO_ON",
                      path |-> st1.path, resets |-> st1.resets,
                      seen |-> st1.seen, hist |-> NoHist, prev |-> last.op]
          /\ hist' = hist_after(st0, st1)
          /\ UNCHANGED <<config_context, config_storage, peer, arg, res>>

\* handle_uri_raw, on any request
mod_extforward_uri_handler == \E headers \in RequestHeaders : uri_handler_on(headers)

\* handle_request_done and connection_reset
mod_extforward_restore ==
  \E st1 \in {restore_body([con |-> con, heap |-> heap, resets |-> 0,
                            seen |-> NULL, path |-> "none"])} :
    /\ con' = st1.con
    /\ heap' = st1.heap
    /\ last' = [op |-> "restore", ret |-> "HANDLER_GO_ON",
                path |-> st1.path, resets |-> st1.resets, seen |-> st1.seen,
                hist |-> hist, prev |-> last.op]
    /\ hist' = NoHist
    /\ UNCHANGED <<config_context, config_storage, conf, peer, arg, res>>

(***************************************************************************)
(* Spec: one connection serving any requests                               *)
(***************************************************************************)

\* Configuration files: one global scope, which sets extforward.forwarder
\* and may set extforward.headers.
HeaderLists == {<<FF, XFF>>}
GlobalScopes(maps) ==
  {[k \in {KEY_forwarder} |-> f] : f \in maps}
  \cup {[k \in {KEY_forwarder, KEY_headers} |->
           IF k = KEY_forwarder THEN f ELSE hl] :
          f \in maps, hl \in HeaderLists}
ConfigFiles == {<<g>> : g \in GlobalScopes(ForwarderMaps)}
ReqConfigFiles == {<<g>> : g \in GlobalScopes(ReqForwarderMaps)}

Schemes == {STR_http, STR_https}

NoArg == [kind |-> "none"]

\* A connection accepted from a peer, after the configuration was loaded.
InitConnection(files) ==
  /\ config_context \in files
  /\ mod_extforward_set_defaults(config_context).ret = "HANDLER_GO_ON"
  /\ config_storage = mod_extforward_set_defaults(config_context).config_storage
  /\ conf = [forwarder |-> << >>, headers |-> << >>]
  /\ \E text \in PeerTexts, scheme \in Schemes :
       /\ peer = [dst_addr |-> sockaddr_of[text], text |-> text]
       /\ con = [dst_addr |-> sockaddr_of[text],
                 dst_addr_buf |-> [id |-> 1, ptr |-> text],
                 uri_scheme |-> scheme,
                 plugin_ctx |-> NULL]
  /\ heap = [i \in 1..MaxBufs |-> IF i = 1 THEN "live" ELSE "free"]
  /\ last = [op |-> "none", ret |-> "HANDLER_GO_ON", path |-> "none",
             resets |-> 0, seen |-> NULL, hist |-> NoHist, prev |-> "none"]
  /\ hist = NoHist

Init ==
  /\ InitConnection(ConfigFiles)
  /\ arg = NoArg
  /\ res = NoArg

Next ==
  \/ mod_extforward_uri_handler
  \/ mod_extforward_restore

Spec == Init /\ [][Next]_vars

(***************************************************************************)
(* SpecReq: one connection serving one request, whose headers are arg      *)
(***************************************************************************)

InitReq ==
  /\ InitConnection(ReqConfigFiles)
  /\ arg \in {[kind |-> "request", headers |-> h] : h \in ReqRequestHeaders}
  /\ res = NoArg

\* handle_uri_raw, on the request being served
uri_handler_request == uri_handler_on(arg.headers)

NextReq ==
  \/ uri_handler_request
  \/ mod_extforward_restore

SpecReq == InitReq /\ [][NextReq]_vars

(***************************************************************************)
(* SpecTrust: is_proxy_trusted and last_not_in_array, called on any input  *)
(* SpecParse: extract_forward_array, called on any header value            *)
(* arg is the call, res its result; the connection is idle.               *)
(***************************************************************************)

\* Number of tokens of a chain handed to last_not_in_array.
MaxChain == 2
\* Length of a header value handed to extract_forward_array.
MaxParseLen == 3

\* Forwarder maps: the keys are "all" and two addresses, the values "trust" in
\* several spellings and texts that are not "trust".  Keys and addresses
\* differ by more than letter case.
TrustKeys == {STR_all, <<"1">>, <<"a">>}
TrustValues ==
  {STR_trust, <<"T", "r", "U", "s", "T">>, STR_no, <<"t", "r", "u", "s">>,
   <<"t", "r", "u", "s", "t", "s">>}
TrustMaps == UNION {[K -> TrustValues] : K \in SUBSET TrustKeys}
TrustAddrs == {<<"1">>, <<"a">>, <<"1", "1">>}
Chains == UNION {[1..n -> TrustAddrs] : n \in 0..MaxChain}

\* Header values: the characters of the scanner's alphabet at both ends of
\* each range, and the characters next to the ranges.
ParseChars ==
  {" ", ",", ".", "/", "0", "9", ":", "@", "A", "F", "G", "a", "f", "g"}
ParseValues == StringsUpTo(ParseChars, MaxParseLen)

InitFun ==
  /\ InitConnection({<<g>> : g \in GlobalScopes({<< >>})})
  /\ arg = NoArg
  /\ res = NoArg

call_is_proxy_trusted ==
  /\ arg = NoArg
  /\ \E ipstr \in TrustAddrs, forwarder \in TrustMaps :
       /\ arg' = [kind |-> "is_proxy_trusted", ipstr |-> ipstr,
                  forwarder |-> forwarder]
       /\ res' = [kind |-> "is_proxy_trusted",
                  ret |-> is_proxy_trusted(ipstr, forwarder)]
  /\ UNCHANGED <<config_context, config_storage, conf, con, heap, peer, last,
                 hist>>

call_last_not_in_array ==
  /\ arg = NoArg
  /\ \E a \in Chains, forwarder \in TrustMaps :
       /\ arg' = [kind |-> "last_not_in_array", a |-> a,
                  forwarder |-> forwarder]
       /\ res' = [kind |-> "last_not_in_array",
                  ret |-> last_not_in_array(a, forwarder)]
  /\ UNCHANGED <<config_context, config_storage, conf, con, heap, peer, last,
                 hist>>

NextTrust ==
  \/ call_is_proxy_trusted
  \/ call_last_not_in_array

SpecTrust == InitFun /\ [][NextTrust]_vars

call_extract_forward_array ==
  /\ arg = NoArg
  /\ \E pbuffer \in ParseValues :
       /\ arg' = [kind |-> "extract_forward_array", pbuffer |-> pbuffer]
       /\ res' = [kind |-> "extract_forward_array",
                  ret |-> extract_forward_array(pbuffer)]
  /\ UNCHANGED <<config_context, config_storage, conf, con, heap, peer, last,
                 hist>>

NextParse == call_extract_forward_array

SpecParse == InitFun /\ [][NextParse]_vars

(***************************************************************************)
(* SpecProto: mod_extforward_set_proto, called on any scheme text          *)
(***************************************************************************)

\* Scheme texts: the two words in several letter cases, their prefixes and
\* extensions, a list of schemes, another scheme and the empty text.
ProtoTexts ==
  {<< >>,
   <<"h", "t", "t", "p", "s">>, <<"H", "T", "T", "P", "S">>,
   <<"H", "t", "t", "p", "S">>,
   <<"h", "t", "t", "p">>, <<"H", "T", "T", "P">>, <<"h", "T", "t", "P">>,
   <<"f", "t", "p">>, <<"h", "t", "t">>, <<"h">>, <<"t", "t", "p", "s">>,
   <<"h", "t", "t", "p", "s", "s">>, <<"h", "t", "t", "p", ",">>,
   <<"h", "t", "t", "p", "s", ",", "h", "t", "t", "p">>,
   <<"h", "t", "t", "p", ",", "h", "t", "t", "p", "s">>,
   <<"h", "t", "t", "p", " ">>, <<" ", "h", "t", "t", "p", "s">>}

call_set_proto ==
  /\ arg = NoArg
  /\ \E scheme \in Schemes, proto \in ProtoTexts :
       /\ arg' = [kind |-> "set_proto", scheme |-> scheme, proto |-> proto]
       /\ res' = [kind |-> "set_proto",
                  ret |-> mod_extforward_set_proto(
                            [con EXCEPT !.uri_scheme = scheme], proto)]
  /\ UNCHANGED <<config_context, config_storage, conf, con, heap, peer, last,
                 hist>>

NextProto == call_set_proto

SpecProto == InitFun /\ [][NextProto]_vars

(***************************************************************************)
(* SpecConf: mod_extforward_set_defaults on any configuration file         *)
(***************************************************************************)

\* Number of scopes of a configuration file.
MaxScopes == 2

\* The values a scope gives to extforward.forwarder and extforward.headers.
\* The last forwarder value is a plain list, the last headers value a list
\* of key => value pairs.
ConfForwarders ==
  {<< >>, [k \in {<<"1">>} |-> STR_trust], [k \in {<< >>} |-> <<"1">>]}
ConfHeaders == {<< >>, <<FF>>, <<FF, XFF>>, <<KEYED>>}
ConfFileScopes ==
  {<< >>}
  \cup {[k \in {KEY_forwarder} |-> f] : f \in ConfForwarders}
  \cup {[k \in {KEY_headers} |-> h] : h \in ConfHeaders}
  \cup {[k \in {KEY_forwarder, KEY_headers} |->
           IF k = KEY_forwarder THEN f ELSE h] :
          f \in ConfForwarders, h \in ConfHeaders}
AnyConfigFiles == UNION {[1..n -> ConfFileScopes] : n \in 1..MaxScopes}

\* The server has read a configuration file; the plugin is not yet set up.
InitConf ==
  /\ config_context \in AnyConfigFiles
  /\ config_storage = << >>
  /\ conf = [forwarder |-> << >>, headers |-> << >>]
  /\ peer = [dst_addr |-> sockaddr_of[<<"1">>], text |-> <<"1">>]
  /\ con = [dst_addr |-> sockaddr_of[<<"1">>],
            dst_addr_buf |-> [id |-> 1, ptr |-> <<"1">>],
            uri_scheme |-> STR_http,
            plugin_ctx |-> NULL]
  /\ heap = [i \in 1..MaxBufs |-> IF i = 1 THEN "live" ELSE "free"]
  /\ last = [op |-> "none", ret |-> "HANDLER_GO_ON", path |-> "none",
             resets |-> 0, seen |-> NULL, hist |-> NoHist, prev |-> "none"]
  /\ hist = NoHist
  /\ arg = NoArg
  /\ res = NoArg

\* set_defaults, run once
set_defaults ==
  /\ res = NoArg
  /\ \E r \in {mod_extforward_set_defaults(config_context)} :
       /\ config_storage' = r.config_storage
       /\ res' = [kind |-> "set_defaults", ret |-> r.ret]
  /\ UNCHANGED <<config_context, conf, con, heap, peer, last, hist, arg>>

NextConf == set_defaults

SpecConf == InitConf /\ [][NextConf]_vars

(***************************************************************************)
(* SpecCond: one connection under a configuration with a conditional       *)
(* scope that sets extforward.forwarder; whether its condition matches is  *)
(* open at every run of the request hook, as a condition on the remote     *)
(* address is evaluated anew after a substitution.                        *)
(***************************************************************************)

CondKeys == {STR_all, <<"1">>, <<"1", "1">>}
CondMaps ==
  {f \in UNION {[K -> FwdValues] : K \in SUBSET CondKeys} :
     \A k \in DOMAIN f : k /= STR_all => f[k] = STR_trust}
CondConfigFiles ==
  {<<[k \in {KEY_forwarder} |-> g], [k \in {KEY_forwarder} |-> c]>> :
     g \in CondMaps, c \in CondMaps}
CondValues == {<<"1">>, <<"1", "1">>, <<"1", ",", "1">>, <<"1", "1", ",">>}
CondRequestHeaders ==
  {[n \in {XFF, FF, XFP} |-> IF n = XFF THEN x ELSE NULL] :
     x \in OptionOf(CondValues)}

InitCond ==
  /\ InitConnection(CondConfigFiles)
  /\ arg = NoArg
  /\ res = NoArg

\* handle_uri_raw, on a request with at most an X-Forwarded-For header
uri_handler_cond == \E headers \in CondRequestHeaders : uri_handler_on(headers)

NextCond ==
  \/ uri_handler_cond
  \/ mod_extforward_restore

SpecCond == InitCond /\ [][NextCond]_vars

(***************************************************************************)
(* Claims about the connection                                             *)
(***************************************************************************)

\* The address pair a connection shows to the rest of the server.
AddrPair(c) == [dst_addr |-> c.dst_addr, text |-> c.dst_addr_buf.ptr]
PairBefore(h) == [dst_addr |-> h.pre.dst_addr, text |-> h.pre.dst_addr_buf.ptr]

\* C1: after a Restore (request done or connection reset) the connection's
\* structured and textual address are those of the real socket peer, for
\* any configuration and any requests served before.
C1_RestoreGivesPeer ==
  last.op = "restore" => AddrPair(con) = peer

\* C2: two successful set_addr calls with no Restore between them, then one
\* Restore, leave the address and its text as they were before the first
\* set_addr.
C2_TwoAppliesRestoreOriginal ==
  (last.op = "restore" /\ last.hist.napply = 2) =>
     AddrPair(con) = PairBefore(last.hist)

\* C3: from a connection without saved context, one successful set_addr
\* followed by Restore leaves the address and the very buffer of its text as
\* they were before set_addr, and leaves no saved context.
C3_ApplyRestoreIdentity ==
  (last.op = "restore" /\ last.hist.napply = 1) =>
     /\ con.dst_addr = last.hist.pre.dst_addr
     /\ con.dst_addr_buf = last.hist.pre.dst_addr_buf
     /\ con.plugin_ctx = NULL

\* C3 witness: a Restore undid exactly one substitution.
C3_Witness ==
  /\ last.op = "restore"
  /\ last.path = "restored"
  /\ last.hist.napply = 1
  /\ heap[2] = "free"

\* C4: Restore without saved context changes neither address, text, scheme
\* nor context and returns HANDLER_GO_ON; so a Restore that directly follows
\* a Restore changes nothing.
C4_RestoreWithoutContext ==
  [][/\ (last'.op = "restore" /\ con.plugin_ctx = NULL) =>
          (con' = con /\ last'.ret = "HANDLER_GO_ON")
     /\ (last'.op = "restore" /\ last.op = "restore") => con' = con]_vars

\* C4 witness: a Restore ran directly after a Restore, with no saved context.
C4_Witness ==
  /\ last.op = "restore"
  /\ last.prev = "restore"
  /\ last.path = "no_ctx"
  /\ last.hist = NoHist
  /\ con.plugin_ctx = NULL
  /\ AddrPair(con) = peer

\* C5: when is_proxy_trusted does not trust the connection's current peer
\* text under the patched configuration, the request hook leaves address,
\* text, scheme and saved context alone, whatever headers the request has.
C5_UntrustedPeerIgnored ==
  [][(/\ last'.op = "uri_handler"
      /\ is_proxy_trusted(con.dst_addr_buf.ptr, conf'.forwarder) = IP_UNTRUSTED)
       => con' = con]_vars

\* C5 witness: the hook found a forwarding header on a request from an
\* untrusted peer.
C5_Witness ==
  /\ last.op = "uri_handler"
  /\ last.path = "untrusted"
  /\ is_proxy_trusted(con.dst_addr_buf.ptr, conf.forwarder) = IP_UNTRUSTED

\* The rightmost token of a chain that is not a key of the forwarder map.
RightmostNonKey(chain, forwarder) ==
  LET idx == {i \in 1..Len(chain) : chain[i] \notin DOMAIN forwarder}
  IN  IF idx = {} THEN NULL
      ELSE Ptr(chain[CHOOSE i \in idx : \A j \in idx : j <= i])

AllTrust(forwarder) ==
  /\ STR_all \in DOMAIN forwarder
  /\ forwarder[STR_all] = STR_trust

\* The chain of the first configured header that the request carries.
RequestChain ==
  forward_array_of[find_forwarded(conf.headers, 1, arg.headers).ptr]

\* C7: "all" counts only for the connecting address, not in the walk.  With
\* "all" => "trust" in the forwarder map and a forwarding header on the
\* request, the hook substitutes the rightmost token of the chain that is not
\* literally a key of the map, if that token converts to an address: the
\* last token of the chain when "all" is the only key.
C7_AllNotAcceptedInWalk ==
  (/\ last.op = "uri_handler"
   /\ AllTrust(conf.forwarder)
   /\ find_forwarded(conf.headers, 1, arg.headers) /= NULL)
  => LET chain == RequestChain
         cand == RightmostNonKey(chain, conf.forwarder)
     IN  /\ cand = NULL => last.path = "no_addr"
         /\ (cand /= NULL /\ sockaddr_of[cand.ptr].family = "AF_UNSPEC")
               => last.path = "conv_failed"
         /\ (cand /= NULL /\ sockaddr_of[cand.ptr].family /= "AF_UNSPEC")
               => /\ last.path = "applied"
                  /\ AddrPair(con) = [dst_addr |-> sockaddr_of[cand.ptr],
                                      text |-> cand.ptr]
                  /\ (DOMAIN conf.forwarder = {STR_all}
                        => con.dst_addr_buf.ptr = chain[Len(chain)])

\* C7 witness: with "all" => "trust" and a specific address in the map, the
\* hook substituted a token that is not the last of the chain.
C7_Witness ==
  /\ last.op = "uri_handler"
  /\ last.path = "applied"
  /\ AllTrust(conf.forwarder)
  /\ DOMAIN conf.forwarder /= {STR_all}
  /\ Len(RequestChain) >= 2
  /\ con.dst_addr_buf.ptr /= RequestChain[Len(RequestChain)]
  /\ con.dst_addr_buf.ptr = RequestChain[Len(RequestChain) - 1]

(***************************************************************************)
(* Claims about the trusted set and the chain walk                         *)
(***************************************************************************)

\* The rightmost token of a chain that is_proxy_trusted does not trust.
RightmostUntrusted(chain, forwarder) ==
  LET idx == {i \in 1..Len(chain) :
                is_proxy_trusted(chain[i], forwarder) = IP_UNTRUSTED}
  IN  IF idx = {} THEN NULL
      ELSE Ptr(chain[CHOOSE i \in idx : \A j \in idx : j <= i])

\* C6 as stated: last_not_in_array returns the rightmost token that
\* is_proxy_trusted reports not trusted, none if there is no such token; so
\* none for every chain when the map has "all" => "trust".
C6_WalkerFollowsEvaluator ==
  res.kind = "last_not_in_array" =>
    res.ret = RightmostUntrusted(arg.a, arg.forwarder)

\* C6 amended: last_not_in_array returns the rightmost token that is not a
\* key of the forwarder map, none if every token is a key or the chain is
\* empty, whatever the values of the map and whether or not it has "all".
\* Without an "all" entry that is the rightmost token is_proxy_trusted does
\* not trust; with one, a chain of addresses that are not keys yields its
\* last token.
C6_WalkerReturnsRightmostNonKey ==
  res.kind = "last_not_in_array" =>
    /\ res.ret = RightmostNonKey(arg.a, arg.forwarder)
    /\ STR_all \notin DOMAIN arg.forwarder
         => res.ret = RightmostUntrusted(arg.a, arg.forwarder)
    /\ (arg.a /= << >> /\ \A i \in 1..Len(arg.a) : arg.a[i] \notin DOMAIN arg.forwarder)
         => res.ret = Ptr(arg.a[Len(arg.a)])

\* C6 witness: with "all" => "trust" and a specific key in the map, the walk
\* over a chain that ends in that key returned the token before it.
C6_Witness ==
  /\ res.kind = "last_not_in_array"
  /\ AllTrust(arg.forwarder)
  /\ Len(arg.a) = 2
  /\ arg.a[2] \in DOMAIN arg.forwarder
  /\ res.ret = Ptr(arg.a[1])
  /\ RightmostUntrusted(arg.a, arg.forwarder) = NULL

\* The spellings of a text that differ in letter case only.
UpperOf ==
  [c \in {"t", "r", "u", "s"} |->
     CASE c = "t" -> "T" [] c = "r" -> "R" [] c = "u" -> "U" [] c = "s" -> "S"]
Spellings(text) ==
  {t \in [1..Len(text) -> {"t", "r", "u", "s", "T", "R", "U", "S"}] :
     \A i \in 1..Len(text) : t[i] \in {text[i], UpperOf[text[i]]}}

\* C8: when the forwarder map has an "all" entry, is_proxy_trusted returns
\* trusted for every address if its value is "trust" in any letter case and
\* untrusted for every address otherwise, whatever entry the address has.
C8_AllHasPrecedence ==
  (res.kind = "is_proxy_trusted" /\ STR_all \in DOMAIN arg.forwarder) =>
    res.ret = IF arg.forwarder[STR_all] \in Spellings(STR_trust)
              THEN IP_TRUSTED ELSE IP_UNTRUSTED

\* C8 witness: an address with its own "trust" entry was reported untrusted
\* because of "all" => "no".
C8_Witness ==
  /\ res.kind = "is_proxy_trusted"
  /\ STR_all \in DOMAIN arg.forwarder
  /\ arg.forwarder[STR_all] = STR_no
  /\ arg.ipstr \in DOMAIN arg.forwarder
  /\ arg.forwarder[arg.ipstr] = STR_trust
  /\ res.ret = IP_UNTRUSTED

\* C9: in a forwarder map without "all", an address whose value is not
\* "trust" is untrusted: is_proxy_trusted reports it untrusted, and the walk
\* over a chain that ends in it returns it.
C9_OtherValueMeansUntrusted ==
  /\ (/\ res.kind = "is_proxy_trusted"
      /\ STR_all \notin DOMAIN arg.forwarder
      /\ arg.ipstr \in DOMAIN arg.forwarder
      /\ arg.forwarder[arg.ipstr] \notin Spellings(STR_trust))
       => res.ret = IP_UNTRUSTED
  /\ (/\ res.kind = "last_not_in_array"
      /\ STR_all \notin DOMAIN arg.forwarder
      /\ arg.a /= << >>
      /\ arg.a[Len(arg.a)] \in DOMAIN arg.forwarder
      /\ arg.forwarder[arg.a[Len(arg.a)]] \notin Spellings(STR_trust))
       => res.ret = Ptr(arg.a[Len(arg.a)])

(***************************************************************************)
(* Claims about the scanner                                                *)
(***************************************************************************)

\* The alphabet of addresses, among the characters of the header values.
Alphabet == {"0", "9", "a", "f", "A", "F", ".", ":"}

\* The maximal runs of alphabet characters of s, as <<first, last>>.
Runs(s) ==
  {r \in (1..Len(s)) \X (1..Len(s)) :
     /\ r[1] <= r[2]
     /\ \A k \in r[1]..r[2] : s[k] \in Alphabet
     /\ r[1] = 1 \/ s[r[1] - 1] \notin Alphabet
     /\ r[2] = Len(s) \/ s[r[2] + 1] \notin Alphabet}

\* The texts of a set of disjoint intervals of s, from left to right.
TextsOf(s, rs) ==
  [n \in 1..Cardinality(rs) |->
     LET r == CHOOSE q \in rs : Cardinality({x \in rs : x[1] < q[1]}) = n - 1
     IN  SubSeq(s, r[1], r[2])]

MaximalRuns(s) == TextsOf(s, Runs(s))

\* The runs without the '.' characters they begin with; a run of '.' only
\* leaves nothing.
RunsFromLeadingChar(s) ==
  {<<k, r[2]>> : r \in Runs(s), k \in 1..Len(s)} \cap
  {q \in (1..Len(s)) \X (1..Len(s)) :
     /\ q[1] <= q[2]
     /\ s[q[1]] /= "."
     /\ \E r \in Runs(s) :
          /\ r[2] = q[2]
          /\ r[1] <= q[1]
          /\ \A k \in r[1]..(q[1] - 1) : s[k] = "."}

\* C10 as stated: extract_forward_array returns exactly the maximal runs of
\* alphabet characters, from left to right, a '.' that begins a run included.
C10_TokensAreMaximalRuns ==
  res.kind = "extract_forward_array" => res.ret = MaximalRuns(arg.pbuffer)

\* C10 amended: extract_forward_array returns, from left to right, the
\* maximal runs of alphabet characters without the '.' characters they begin
\* with: a token starts at the first character of a run that is a digit, a
\* hex letter or ':'.  No token is empty or holds a character outside the
\* alphabet, and a value without such a first character yields the empty
\* chain.
C10_TokensAreRunsFromLeadingChar ==
  res.kind = "extract_forward_array" =>
    /\ res.ret = TextsOf(arg.pbuffer, RunsFromLeadingChar(arg.pbuffer))
    /\ \A n \in 1..Len(res.ret) :
         /\ res.ret[n] /= << >>
         /\ \A k \in 1..Len(res.ret[n]) : res.ret[n][k] \in Alphabet
    /\ (\A k \in 1..Len(arg.pbuffer) :
          arg.pbuffer[k] \notin Alphabet \/ arg.pbuffer[k] = ".")
         => res.ret = << >>

\* C10 witness: a run that begins with '.' gave a token without that '.'.
C10_Witness ==
  /\ res.kind = "extract_forward_array"
  /\ Len(arg.pbuffer) = 3
  /\ arg.pbuffer[1] = "."
  /\ arg.pbuffer[2] = "9"
  /\ arg.pbuffer[3] = "."
  /\ res.ret = << <<"9", ".">> >>

(***************************************************************************)
(* Claims about set_addr, set_proto and the request hook                   *)
(***************************************************************************)

\* C11: when the resolved text does not convert to an address, set_addr
\* returns 0 and the hook leaves address, text, scheme and saved context
\* (empty or not) and the buffers as they were, and resets no cache.
C11_FailedConversionMutatesNothing ==
  [][(last'.op = "uri_handler" /\ last'.path = "conv_failed")
       => /\ con' = con
          /\ heap' = heap
          /\ hist' = hist
          /\ last'.resets = 0]_vars

\* C11 witness: a conversion failed while an earlier substitution was saved.
C11_Witness ==
  /\ last.op = "uri_handler"
  /\ last.path = "conv_failed"
  /\ last.prev = "uri_handler"
  /\ con.plugin_ctx /= NULL
  /\ hist.napply = 1
  /\ con.plugin_ctx.saved_remote_addr = peer.dst_addr

\* The text in lower case, letter by letter.
LowerOf ==
  [c \in {"h", "t", "p", "s", "H", "T", "P", "S", "f", ",", " "} |->
     CASE c = "H" -> "h" [] c = "T" -> "t" [] c = "P" -> "p" [] c = "S" -> "s"
       [] OTHER -> c]
LowerText(text) == [i \in 1..Len(text) |-> LowerOf[text[i]]]

\* C12: after set_proto the scheme is unchanged or is "https" or "http": it
\* becomes the lowercase word iff the whole text is that word in any letter
\* case and the current scheme is not; any other text changes nothing, and
\* set_proto touches nothing but the scheme.
C12_SchemeOnlyHttpOrHttps ==
  res.kind = "set_proto" =>
    /\ res.ret = [con EXCEPT !.uri_scheme = res.ret.uri_scheme]
    /\ res.ret.uri_scheme \in {arg.scheme, STR_https, STR_http}
    /\ res.ret.uri_scheme =
         IF LowerText(arg.proto) \in {STR_https, STR_http}
            /\ LowerText(arg.proto) /= LowerText(arg.scheme)
         THEN LowerText(arg.proto)
         ELSE arg.scheme

\* C12 witness: "HTTPS" changed the scheme http to "https".
C12_Witness ==
  /\ res.kind = "set_proto"
  /\ arg.scheme = STR_http
  /\ arg.proto = <<"H", "T", "T", "P", "S">>
  /\ res.ret.uri_scheme = STR_https

\* The value of the first name of the list that the request carries.
FirstPresent(names, headers) ==
  LET idx == {k \in 1..Len(names) : headers[names[k]] /= NULL}
  IN  IF idx = {} THEN NULL
      ELSE headers[names[CHOOSE k \in idx : \A j \in idx : k <= j]]

\* C13: the hook uses the value of the first configured header name that is
\* present on the request.  It skips iff none is present; from a trusted
\* peer it substitutes the address resolved from that value, and if that
\* value resolves to none it substitutes nothing, whatever a later configured
\* header holds.
C13_FirstPresentHeaderWins ==
  [][last'.op = "uri_handler" =>
       LET v == FirstPresent(conf'.headers, arg.headers)
       IN  /\ v = NULL <=> last'.path = "no_header"
           /\ (v /= NULL /\ last'.path /= "untrusted") =>
                LET cand == RightmostNonKey(forward_array_of[v.ptr],
                                            conf'.forwarder)
                IN  /\ cand = NULL <=> last'.path = "no_addr"
                    /\ cand = NULL => con' = con
                    /\ last'.path = "applied"
                         => con'.dst_addr_buf.ptr = cand.ptr]_vars

\* C13 witness: the first configured header is present with an empty chain,
\* the second holds an address that would resolve; nothing was substituted.
C13_Witness ==
  /\ last.op = "uri_handler"
  /\ last.path = "no_addr"
  /\ Len(conf.headers) = 2
  /\ arg.headers[conf.headers[1]] /= NULL
  /\ forward_array_of[arg.headers[conf.headers[1]].ptr] = << >>
  /\ arg.headers[conf.headers[2]] /= NULL
  /\ RightmostNonKey(forward_array_of[arg.headers[conf.headers[2]].ptr],
                     conf.forwarder) /= NULL
  /\ con.plugin_ctx = NULL
  /\ AddrPair(con) = peer

\* C14: in every state the saved context is populated iff a substitution
\* was applied and not yet restored, that is iff the connection's current
\* text buffer is not the one of the socket peer.
C14_SavedIffSubstituted ==
  /\ con.plugin_ctx /= NULL <=> hist.napply > 0
  /\ con.plugin_ctx /= NULL <=> con.dst_addr_buf.id /= 1

\* C15: restore never changes the scheme: after a request whose
\* X-Forwarded-Proto changed it, the scheme after restore is the forwarded
\* one, while the address is the one from before the substitution.
C15_RestoreKeepsScheme ==
  [][last'.op = "restore" =>
       /\ con'.uri_scheme = con.uri_scheme
       /\ (hist.napply = 1 /\ con.uri_scheme /= hist.pre.uri_scheme) =>
            /\ con'.uri_scheme /= hist.pre.uri_scheme
            /\ con'.dst_addr = hist.pre.dst_addr
            /\ con'.dst_addr_buf = hist.pre.dst_addr_buf]_vars

\* C15 witness: a request substituted the address and changed the scheme
\* from http to https; after restore the address is the peer's and the
\* scheme is still https.
C15_Witness ==
  /\ last.op = "restore"
  /\ last.path = "restored"
  /\ last.hist.napply = 1
  /\ last.hist.pre.uri_scheme = STR_http
  /\ con.uri_scheme = STR_https
  /\ AddrPair(con) = peer
  /\ con.plugin_ctx = NULL

(***************************************************************************)
(* Claims about the configuration                                          *)
(***************************************************************************)

\* What a scope of the file says, an absent key being empty.
Given(v, key) == IF key \in DOMAIN v THEN v[key] ELSE << >>
BadScope(v) ==
  \/ KEY_forwarder \in DOMAIN v /\ v[KEY_forwarder] = [k \in {<< >>} |-> <<"1">>]
  \/ KEY_headers \in DOMAIN v /\ v[KEY_headers] = <<KEYED>>

\* C16: set_defaults gives a scope the default headers <<X-Forwarded-For,
\* Forwarded-For>> exactly when its list is empty and the scope is the global
\* one or mentions extforward.headers; a forwarder or headers value of the
\* wrong shape makes it return an error at that scope, which gets no default.
C16_DefaultHeadersAndShapeErrors ==
  res.kind = "set_defaults" =>
    LET bad == {i \in 1..Len(config_context) : BadScope(config_context[i])}
    IN  /\ res.ret = "HANDLER_ERROR" <=> bad /= {}
        /\ res.ret = "HANDLER_GO_ON" <=> bad = {}
        /\ bad = {} => Len(config_storage) = Len(config_context)
        /\ bad /= {} => /\ Len(config_storage) \in bad
                        /\ \A j \in bad : Len(config_storage) <= j
        /\ \A i \in 1..Len(config_storage) :
             LET hs == Given(config_context[i], KEY_headers)
             IN  /\ config_storage[i].forwarder
                      = Given(config_context[i], KEY_forwarder)
                 /\ i \notin bad =>
                      /\ config_storage[i].headers = <<XFF, FF>>
                           <=> (hs = << >>
                                /\ (i = 1
                                    \/ KEY_headers \in DOMAIN config_context[i]))
                      /\ config_storage[i].headers /= <<XFF, FF>>
                           => config_storage[i].headers = hs
                 /\ i \in bad => config_storage[i].headers = hs

\* C16 witness: the global scope got the default headers, a second scope
\* that does not mention extforward.headers kept its empty list.
C16_Witness ==
  /\ res.kind = "set_defaults"
  /\ res.ret = "HANDLER_GO_ON"
  /\ Len(config_context) = 2
  /\ KEY_headers \notin DOMAIN config_context[1]
  /\ KEY_headers \notin DOMAIN config_context[2]
  /\ config_storage[1].headers = <<XFF, FF>>
  /\ config_storage[2].headers = << >>

(***************************************************************************)
(* Claims about the order of the steps of a hook                           *)
(***************************************************************************)

\* C17: the hook changes the scheme only after set_addr succeeded in the
\* same run: when no header is present, the peer is untrusted, the chain
\* resolves to none or the conversion fails, the scheme stays as it was even
\* if the request has a valid X-Forwarded-Proto.
C17_SchemeOnlyAfterApply ==
  [][(last'.op = "uri_handler" /\ last'.path /= "applied")
       => con'.uri_scheme = con.uri_scheme]_vars

\* C17 witness: the request has X-Forwarded-Proto: HTTPS and a forwarding
\* header from a trusted peer whose token does not convert; the scheme is
\* still http.
C17_Witness ==
  /\ last.op = "uri_handler"
  /\ last.path = "conv_failed"
  /\ arg.headers[XFP] = Ptr(<<"H", "T", "T", "P", "S">>)
  /\ con.uri_scheme = STR_http
  /\ con.plugin_ctx = NULL

\* C18: clean_cond_cache is called once by each hook run that substitutes
\* an address and once by each restore that had a saved context, after the
\* address was changed, and by no other step; a step that calls it not at
\* all leaves the address alone.
C18_CacheResetWithAddressChange ==
  [][/\ last'.op = "uri_handler" =>
          last'.resets = IF last'.path = "applied" THEN 1 ELSE 0
     /\ last'.op = "restore" =>
          /\ last'.resets = IF con.plugin_ctx /= NULL THEN 1 ELSE 0
          /\ con.plugin_ctx /= NULL <=> last'.path = "restored"
     /\ last'.resets = 0 =>
          /\ con'.dst_addr = con.dst_addr
          /\ con'.dst_addr_buf = con.dst_addr_buf
          /\ last'.seen = NULL
     /\ last'.resets = 1 =>
          /\ last'.seen.dst_addr = con'.dst_addr
          /\ last'.seen.dst_addr_buf = con'.dst_addr_buf]_vars

\* C18 witness: a hook run substituted an address other than the peer's and
\* reset the cache once, with the new address in place.
C18_Witness ==
  /\ last.op = "uri_handler"
  /\ last.path = "applied"
  /\ last.resets = 1
  /\ last.seen.dst_addr /= peer.dst_addr
  /\ last.seen.dst_addr = con.dst_addr

\* C19: the address a hook run substitutes is not a key of the forwarder map
\* of that run.  So when the next run of the hook, with no restore between,
\* has the same map and the map has no "all", it changes nothing: the peer
\* text is not trusted.  Two substituting runs in a row under one map happen
\* only with "all" => "trust".
C19_SecondPassIsNoOp ==
  [][/\ (last'.op = "uri_handler" /\ last'.path = "applied")
          => con'.dst_addr_buf.ptr \notin DOMAIN conf'.forwarder
     /\ (/\ last'.op = "uri_handler"
         /\ last.op = "uri_handler"
         /\ last.path = "applied"
         /\ conf'.forwarder = conf.forwarder
         /\ STR_all \notin DOMAIN conf.forwarder)
          => /\ con' = con
             /\ heap' = heap
             /\ hist' = hist
             /\ last'.path \in {"untrusted", "no_header"}
     /\ (/\ last'.op = "uri_handler"
         /\ last'.path = "applied"
         /\ last.op = "uri_handler"
         /\ last.path = "applied"
         /\ conf'.forwarder = conf.forwarder)
          => /\ STR_all \in DOMAIN conf.forwarder
             /\ conf.forwarder[STR_all] \in Spellings(STR_trust)]_vars

\* C19 witness: under a map without "all" that both scopes share, a second
\* run of the hook found the substituted address untrusted and left the
\* substitution of the first run in place.
C19_Witness ==
  /\ last.op = "uri_handler"
  /\ last.prev = "uri_handler"
  /\ last.path = "untrusted"
  /\ config_storage[1].forwarder = config_storage[2].forwarder
  /\ STR_all \notin DOMAIN conf.forwarder
  /\ hist.napply = 1
  /\ con.plugin_ctx /= NULL
  /\ con.dst_addr_buf.ptr \notin DOMAIN conf.forwarder

(***************************************************************************)
(* Claims about the text buffers                                           *)
(***************************************************************************)

\* C20: no text buffer is orphaned or freed twice: in every state each live
\* buffer is the connection's dst_addr_buf or the saved_remote_addr_buf of
\* the saved context, and no buffer was freed while not live.
C20_NoBufferOrphanedOrFreedTwice ==
  \A i \in DOMAIN heap :
    /\ heap[i] /= "double_free"
    /\ heap[i] = "live" =>
         \/ i = con.dst_addr_buf.id
         \/ /\ con.plugin_ctx /= NULL
            /\ i = con.plugin_ctx.saved_remote_addr_buf.id

====
